---- MODULE Spec2Model ----
(***************************************************************************)
(* Model of the Google Drive tree synchronisation of drivetools.py:        *)
(* path segmentation (_create_path_stack, PathStack), folder path          *)
(* resolution (create_gdrive_path), the per-file upload decision           *)
(* (sync_file) and the recursive traversal (sync_folder).                  *)
(*                                                                         *)
(* Strings are sequences of one-character strings, so that os.path.split,  *)
(* os.path.join and the substring test of get_gdrive_file_id are computed  *)
(* character by character.                                                 *)
(***************************************************************************)
EXTENDS Integers, Sequences, FiniteSets, TLC

\* ------------------------------------------------------------------ bounds
\* longest path string handed to the segmenter
MaxPathLen == 5
\* components recorded in path_stack before the model stops following a loop
MaxStack == 6
\* timestamps range over 0..MaxTime; the server stamps an upload with MaxTime
MaxTime == 2
\* sync passes run one after the other
MaxPasses == 2
\* remote calls that raise in one run
MaxFailures == 1

SEP == "/"
PathChars == {"a", "b", SEP}

\* ------------------------------------------------------------ os.path
\* position of the last separator of p, 0 when there is none (str.rfind + 1)
RFindSep(p) ==
    IF \E k \in 1..Len(p) : p[k] = SEP
    THEN CHOOSE k \in 1..Len(p) : p[k] = SEP /\ \A j \in (k+1)..Len(p) : p[j] # SEP
    ELSE 0

\* str.rstrip('/')
RStripSep(p) ==
    IF \E k \in 1..Len(p) : p[k] # SEP
    THEN SubSeq(p, 1, CHOOSE k \in 1..Len(p) : p[k] # SEP /\ \A j \in (k+1)..Len(p) : p[j] = SEP)
    ELSE <<>>

\* posixpath.split: head is everything up to the last separator, stripped of
\* trailing separators unless it consists of separators only
OsPathSplit(p) ==
    LET i == RFindSep(p)
        h == SubSeq(p, 1, i)
        t == SubSeq(p, i + 1, Len(p))
    IN  [head |-> IF h # <<>> /\ (\E k \in 1..Len(h) : h[k] # SEP) THEN RStripSep(h) ELSE h,
         tail |-> t]

\* posixpath.join of two components
OsPathJoin(a, b) ==
    IF b # <<>> /\ b[1] = SEP THEN b
    ELSE IF a = <<>> \/ a[Len(a)] = SEP THEN a \o b
    ELSE a \o <<SEP>> \o b

\* ------------------------------------------------- _create_path_stack
\* lines 22-23: the first split
SplitFirst(path) ==
    LET s == OsPathSplit(path) IN [head |-> s.head, path_stack |-> <<s.tail>>]

\* lines 25-26: one iteration of the while loop
SplitLoopBody(st) ==
    LET s == OsPathSplit(st.head)
    IN  [head |-> s.head, path_stack |-> Append(st.path_stack, s.tail)]

RECURSIVE RunSplitLoop(_)
\* the while loop of lines 24-26, followed for at most MaxStack components
RunSplitLoop(st) ==
    IF st.head = <<>> \/ Len(st.path_stack) >= MaxStack THEN st
    ELSE RunSplitLoop(SplitLoopBody(st))

\* _create_path_stack(path): the returned list, leaf first; diverges is TRUE
\* when the loop is still running after MaxStack components
CreatePathStack(path) ==
    LET st == RunSplitLoop(SplitFirst(path))
    IN  [path_stack |-> st.path_stack, diverges |-> st.head # <<>>]

\* ------------------------------------------------------ remote records
FOLDER_MIME_TYPE == "application/vnd.google-apps.folder"
FILE_MIME_TYPE == "application/octet-stream"

\* id of the account's root folder; the query alias 'root' of line 190 names it
RootId == 0
\* Python's None where an id is expected
None == 0 - 1
\* first id the service assigns to a node created by the program
FirstNewId == 6

RemoteRecord(id, title, mimeType, parent, modifiedDate) ==
    [id |-> id, title |-> title, mimeType |-> mimeType,
     parents |-> {parent}, modifiedDate |-> modifiedDate]

RECURSIVE AscendingById(_)
AscendingById(S) ==
    IF S = {} THEN <<>>
    ELSE LET m == CHOOSE r \in S : \A q \in S : r.id <= q.id
         IN  <<m>> \o AscendingById(S \ {m})

Reverse(s) == [k \in 1..Len(s) |-> s[Len(s) + 1 - k]]

\* the orders in which the service may return the records of a listing
ListOrders == {"asc", "desc"}

\* drive.ListFile(...).GetList() over the record set S
GetList(S, order) ==
    IF order = "asc" THEN AscendingById(S) ELSE Reverse(AscendingById(S))

\* a file_list argument: Python None, or a list of records
NoFileList == [known |-> FALSE, items |-> <<>>]
FileList(items) == [known |-> TRUE, items |-> items]

\* get_gdrive_file_list: a list that was passed in is returned as it is,
\* whatever the parent; otherwise the service is queried for the children
\* of remote_parent_id (this module only calls it with a parent or a list)
GetGdriveFileList(rem, remote_parent_id, file_list, order) ==
    IF file_list.known THEN file_list.items
    ELSE GetList({r \in rem : remote_parent_id \in r.parents}, order)

\* the first of the positions K of a list a for loop runs over, 0 when K is
\* empty
FirstOf(K) == IF K = {} THEN 0 ELSE CHOOSE k \in K : \A j \in K : k <= j

\* get_gdrive_folder_id: first record of the list with the title and the
\* folder mime type; None parent stands for 'root'
GetGdriveFolderId(rem, folder_name, remote_parent_id, file_list, order) ==
    LET parent == IF remote_parent_id = None THEN RootId ELSE remote_parent_id
        fl == GetGdriveFileList(rem, parent, file_list, order)
        k == FirstOf({n \in DOMAIN fl : /\ fl[n].title = folder_name
                                        /\ fl[n].mimeType = FOLDER_MIME_TYPE})
    IN  IF k = 0 THEN None ELSE fl[k].id

\* Python's  name in title  on strings
IsSubstring(name, title) ==
    \E k \in 0..(Len(title) - Len(name)) : SubSeq(title, k + 1, k + Len(name)) = name

\* get_gdrive_file_id with a file list: first record whose title contains name
GetGdriveFileId(name, file_list) ==
    LET k == FirstOf({n \in DOMAIN file_list : IsSubstring(name, file_list[n].title)})
    IN  IF k = 0 THEN None ELSE file_list[k].id

\* get_gdrive_modification_date with a file list that holds file_id
GetGdriveModificationDate(file_id, file_list) ==
    file_list[FirstOf({n \in DOMAIN file_list : file_list[n].id = file_id})].modifiedDate

\* _extract_file_list: the records whose parents hold remote_parent_id
ExtractFileList(root_file_list, remote_parent_id) ==
    SelectSeq(root_file_list, LAMBDA f : remote_parent_id \in f.parents)

\* the record the service stores for a folder made by create_gdrive_folder
\* (no parents in the request puts the folder into the root)
NewFolderRecord(id, folder_name, remote_parent_id) ==
    RemoteRecord(id, folder_name, FOLDER_MIME_TYPE,
                 IF remote_parent_id = None THEN RootId ELSE remote_parent_id, MaxTime)

\* the record the service stores for upload_file without file_id
NewFileRecord(id, name, remote_parent_id) ==
    RemoteRecord(id, name, FILE_MIME_TYPE,
                 IF remote_parent_id = None THEN RootId ELSE remote_parent_id, MaxTime)

\* upload_file with file_id: the request carries title and id, the service
\* replaces the content and stamps the node
UpdatedRecord(r, name) == [r EXCEPT !.title = name, !.modifiedDate = MaxTime]

\* ---------------------------------------------------------- local trees
LocalFile(name, mtime) == [name |-> name, is_dir |-> FALSE, dir |-> 0, mtime |-> mtime]
LocalDir(name, dir) == [name |-> name, is_dir |-> TRUE, dir |-> dir, mtime |-> 0]

\* iterdir() of every directory; directory 1 is the folder given to the pass
Tree1 == 1 :> <<LocalFile(<<"f">>, 1), LocalDir(<<"s">>, 2)>>
      @@ 2 :> <<LocalFile(<<"g">>, 1)>>
Tree2 == 1 :> <<LocalDir(<<"s">>, 2), LocalFile(<<"f">>, 1)>>
      @@ 2 :> <<LocalFile(<<"g">>, 1), LocalDir(<<"t">>, 3)>>
      @@ 3 :> <<LocalFile(<<"h">>, 1)>>
Tree3 == 1 :> <<LocalDir(<<"s">>, 2), LocalFile(<<"f">>, 1), LocalDir(<<"t">>, 3)>>
      @@ 2 :> <<LocalDir(<<"u">>, 4), LocalFile(<<"g">>, 1)>>
      @@ 3 :> <<LocalFile(<<"g">>, 1)>>
      @@ 4 :> <<>>
\* a directory holding one regular file that is named like a folder
Tree4 == 1 :> <<LocalFile(<<"s">>, 1)>>
Trees == {Tree1, Tree2, Tree3, Tree4}

\* remote paths given to a pass or a resolution
RemotePaths == {<<"a">>, <<"a", SEP, "b">>, <<"a", SEP>>, <<>>, <<SEP, "a">>}

\* the accounts a run starts from: any parent-closed choice among folder a at
\* the root, folder s inside a, a folder s at the root, and files f and fg
\* inside a with any timestamp
InitialRemotes ==
    LET a   == RemoteRecord(1, <<"a">>, FOLDER_MIME_TYPE, RootId, 0)
        as  == RemoteRecord(2, <<"s">>, FOLDER_MIME_TYPE, 1, 0)
        s   == RemoteRecord(3, <<"s">>, FOLDER_MIME_TYPE, RootId, 0)
        F   == {{}} \cup {{RemoteRecord(4, <<"f">>, FILE_MIME_TYPE, 1, t)} : t \in 0..MaxTime}
        FG  == {{}} \cup {{RemoteRecord(5, <<"f", "g">>, FILE_MIME_TYPE, 1, t)} : t \in 0..MaxTime}
    IN  {S \cup X : S \in {{}, {s}}, X \in {{}} \cup
            {{a} \cup Y \cup f \cup fg : Y \in {{}, {as}}, f \in F, fg \in FG}}

VARIABLES
    \* --- the segmenter run on its own
    spath,          \* the path string given to PathStack
    spc,            \* "off", "start", "loop", "body", "iter", "done"
    head,           \* local variable head of _create_path_stack
    path_stack,     \* local variable path_stack, then PathStack.stack
    yielded,        \* the items PathStack.__next__ has returned so far
    \* --- the drive and the calls into it
    tree,           \* the local directory tree
    remote_path,    \* the remote path argument
    remote,         \* the records the service holds
    nextId,         \* the id the service assigns next
    root_file_list, \* the file list argument handed down the calls (or None)
    stack,          \* the call stack: sync_folder and create_gdrive_path frames
    ops,            \* the program's requests and folder lookups of this pass, in order
    calls,          \* the sync_folder and sync_file calls of this pass, in order
    passNo,         \* number of passes started
    aborted,        \* the passes that ended in an exception
    returned        \* ids returned by direct create_gdrive_path calls, in order

segvars == <<spath, spc, head, path_stack, yielded>>
syncvars == <<tree, remote_path, remote, nextId, root_file_list, stack, ops, calls,
              passNo, aborted, returned>>
vars == <<spath, spc, head, path_stack, yielded, tree, remote_path, remote, nextId,
          root_file_list, stack, ops, calls, passNo, aborted, returned>>

RECURSIVE StringsOfLen(_)
StringsOfLen(n) ==
    IF n = 0 THEN {<<>>}
    ELSE {Append(s, c) : s \in StringsOfLen(n - 1), c \in PathChars}

PathStrings == UNION {StringsOfLen(n) : n \in 0..MaxPathLen}

SegOff ==
    /\ spath = <<>>
    /\ spc = "off"
    /\ head = <<>>
    /\ path_stack = <<>>
    /\ yielded = <<>>

SyncOff ==
    /\ tree = Tree1
    /\ remote_path = <<>>
    /\ remote = {}
    /\ nextId = FirstNewId
    /\ root_file_list = NoFileList
    /\ stack = <<>>
    /\ ops = <<>>
    /\ calls = <<>>
    /\ passNo = 0
    /\ aborted = {}
    /\ returned = <<>>

\* =================================================== the segmenter alone
InitSeg ==
    /\ spath \in PathStrings
    /\ spc = "start"
    /\ head = <<>>
    /\ path_stack = <<>>
    /\ yielded = <<>>
    /\ SyncOff

\* PathStack.__init__ entering _create_path_stack: lines 22-23
SegSplitFirst ==
    /\ spc = "start"
    /\ LET st == SplitFirst(spath) IN
         /\ head' = st.head
         /\ path_stack' = st.path_stack
    /\ spc' = "loop"
    /\ UNCHANGED <<spath, yielded>>
    /\ UNCHANGED syncvars

\* line 24: the loop condition holds
SegLoopTest ==
    /\ spc = "loop"
    /\ head # <<>>
    /\ spc' = "body"
    /\ UNCHANGED <<spath, head, path_stack, yielded>>
    /\ UNCHANGED syncvars

\* lines 25-26: the loop body; of a stack that keeps growing only the first
\* MaxStack components are recorded
SegLoopBody ==
    /\ spc = "body"
    /\ LET st == SplitLoopBody([head |-> head, path_stack |-> path_stack]) IN
         /\ head' = st.head
         /\ path_stack' = IF Len(path_stack) < MaxStack THEN st.path_stack ELSE path_stack
    /\ spc' = "loop"
    /\ UNCHANGED <<spath, yielded>>
    /\ UNCHANGED syncvars

\* line 24 fails and line 28 returns the list
SegSplitReturn ==
    /\ spc = "loop"
    /\ head = <<>>
    /\ spc' = "iter"
    /\ UNCHANGED <<spath, head, path_stack, yielded>>
    /\ UNCHANGED syncvars

\* Stack.__next__, lines 41-44: pop the last item
SegNext ==
    /\ spc = "iter"
    /\ Len(path_stack) > 0
    /\ yielded' = Append(yielded, path_stack[Len(path_stack)])
    /\ path_stack' = SubSeq(path_stack, 1, Len(path_stack) - 1)
    /\ UNCHANGED <<spath, spc, head>>
    /\ UNCHANGED syncvars

\* Stack.__next__ on the empty stack: StopIteration ends the for loop
SegStop ==
    /\ spc = "iter"
    /\ Len(path_stack) = 0
    /\ spc' = "done"
    /\ UNCHANGED <<spath, head, path_stack, yielded>>
    /\ UNCHANGED syncvars

NextSeg ==
    \/ SegSplitFirst
    \/ SegLoopTest
    \/ SegLoopBody
    \/ SegSplitReturn
    \/ SegNext
    \/ SegStop

SpecSeg == InitSeg /\ [][NextSeg]_vars
\* the interpreter keeps executing a loop that can take a step
SpecSegFair == SpecSeg /\ WF_vars(NextSeg)

\* ================================================= calls into the drive
Top == stack[Len(stack)]
SetTop(f) == [stack EXCEPT ![Len(stack)] = f]
Pop == SubSeq(stack, 1, Len(stack) - 1)

\* a fresh activation of sync_folder or create_gdrive_path: PathStack(path)
\* is built on entry; pc stays "segmenting" when _create_path_stack does not
\* return
Frame(fn, local_folder, path) ==
    LET ps == CreatePathStack(path)
    IN  [fn |-> fn, local_folder |-> local_folder, remote_parent_path |-> path,
         pc |-> IF ps.diverges THEN "segmenting" ELSE "resolve",
         path_stack |-> ps.path_stack, id_ |-> None, file_list |-> <<>>,
         i |-> 1, sub_directories |-> <<>>, j |-> 1]

Op(op, title, parent, id) ==
    [op |-> op, title |-> title, parent |-> parent, id |-> id,
     dir |-> Top.local_folder, live |-> ~root_file_list.known]

Call(fn, dir, name) == [fn |-> fn, dir |-> dir, name |-> name]

Init ==
    /\ SegOff
    /\ tree \in Trees
    /\ remote_path \in RemotePaths
    /\ remote \in InitialRemotes
    /\ nextId = FirstNewId
    /\ root_file_list = NoFileList
    /\ stack = <<>>
    /\ ops = <<>>
    /\ calls = <<>>
    /\ passNo = 0
    /\ aborted = {}
    /\ returned = <<>>

\* drivesync.main: sync_folder(drive, local_path, remote_path) with no
\* root_file_list
StartPass ==
    /\ stack = <<>>
    /\ passNo < MaxPasses
    /\ passNo' = passNo + 1
    /\ root_file_list' = NoFileList
    /\ stack' = <<Frame("sync_folder", 1, remote_path)>>
    /\ ops' = <<>>
    /\ calls' = <<Call("sync_folder", 1, <<>>)>>
    /\ UNCHANGED <<tree, remote_path, remote, nextId, aborted, returned>>
    /\ UNCHANGED segvars

\* create_gdrive_folder for the next item of PathStack, folder found
\* (lines 226-230)
ResolveFound ==
    /\ stack # <<>>
    /\ Top.pc = "resolve"
    /\ Top.path_stack # <<>>
    /\ \E order \in ListOrders :
         LET n == Len(Top.path_stack)
             folder == Top.path_stack[n]
             folder_id == GetGdriveFolderId(remote, folder, Top.id_, root_file_list, order)
         IN  /\ folder_id # None
             /\ stack' = SetTop([Top EXCEPT !.id_ = folder_id,
                                            !.path_stack = SubSeq(Top.path_stack, 1, n - 1)])
             /\ ops' = Append(ops, Op("lookup", folder, Top.id_, folder_id))
    /\ UNCHANGED <<tree, remote_path, remote, nextId, root_file_list, calls, passNo, aborted, returned>>
    /\ UNCHANGED segvars

\* create_gdrive_folder for the next item of PathStack, folder not found:
\* the folder is created (lines 226-236); the file list is left as it was
ResolveCreate ==
    /\ stack # <<>>
    /\ Top.pc = "resolve"
    /\ Top.path_stack # <<>>
    /\ \E order \in ListOrders :
         LET n == Len(Top.path_stack)
             folder == Top.path_stack[n]
             folder_id == GetGdriveFolderId(remote, folder, Top.id_, root_file_list, order)
         IN  /\ folder_id = None
             /\ remote' = remote \cup {NewFolderRecord(nextId, folder, Top.id_)}
             /\ nextId' = nextId + 1
             /\ stack' = SetTop([Top EXCEPT !.id_ = nextId,
                                            !.path_stack = SubSeq(Top.path_stack, 1, n - 1)])
             /\ ops' = ops \o <<Op("lookup", folder, Top.id_, None),
                                Op("mkdir", folder, Top.id_, nextId)>>
    /\ UNCHANGED <<tree, remote_path, root_file_list, calls, passNo, aborted, returned>>
    /\ UNCHANGED segvars

\* sync_folder lines 341-347 on the first call: the account is listed, then
\* the children of remote_parent_id are extracted
FetchRootFileList ==
    /\ stack # <<>>
    /\ Top.fn = "sync_folder"
    /\ Top.pc = "resolve"
    /\ Top.path_stack = <<>>
    /\ ~root_file_list.known
    /\ \E order \in ListOrders :
         LET listing == GetList(remote, order)
         IN  /\ root_file_list' = FileList(listing)
             /\ stack' = SetTop([Top EXCEPT !.pc = "body",
                                            !.file_list = ExtractFileList(listing, Top.id_)])
    /\ ops' = Append(ops, Op("list", <<>>, None, None))
    /\ UNCHANGED <<tree, remote_path, remote, nextId, calls, passNo, aborted, returned>>
    /\ UNCHANGED segvars

\* ExtractOnly as it would be if the recursive call were made without
\* root_file_list, so that every directory listed the account again
ExtractOnly_ListsAgain ==
    /\ stack # <<>>
    /\ Top.fn = "sync_folder"
    /\ Top.pc = "resolve"
    /\ Top.path_stack = <<>>
    /\ root_file_list.known
    /\ \E order \in ListOrders :
         LET listing == GetList(remote, order)
         IN  /\ root_file_list' = FileList(listing)
             /\ stack' = SetTop([Top EXCEPT !.pc = "body",
                                            !.file_list = ExtractFileList(listing, Top.id_)])
    /\ ops' = Append(ops, Op("list", <<>>, None, None))
    /\ UNCHANGED <<tree, remote_path, remote, nextId, calls, passNo, aborted, returned>>
    /\ UNCHANGED segvars

\* sync_folder lines 341-347 on a recursive call: root_file_list was passed in
ExtractOnly ==
    /\ stack # <<>>
    /\ Top.fn = "sync_folder"
    /\ Top.pc = "resolve"
    /\ Top.path_stack = <<>>
    /\ root_file_list.known
    /\ stack' = SetTop([Top EXCEPT !.pc = "body",
                                   !.file_list = ExtractFileList(root_file_list.items, Top.id_)])
    /\ UNCHANGED <<tree, remote_path, remote, nextId, root_file_list, ops, calls, passNo,
                   aborted, returned>>
    /\ UNCHANGED segvars

\* the entry the loop of _sync_folder_non_recursive is at
AtEntry ==
    /\ stack # <<>>
    /\ Top.fn = "sync_folder"
    /\ Top.pc = "body"
    /\ Top.i <= Len(tree[Top.local_folder])
Entry == tree[Top.local_folder][Top.i]

\* _sync_folder_non_recursive lines 315-316: a directory is put aside
DeferDir_Dropped ==
    /\ AtEntry
    /\ Entry.is_dir
    /\ stack' = SetTop([Top EXCEPT !.i = Top.i + 1])
    /\ UNCHANGED <<tree, remote_path, remote, nextId, root_file_list, ops, calls, passNo,
                   aborted, returned>>
    /\ UNCHANGED segvars

DeferDir ==
    /\ AtEntry
    /\ Entry.is_dir
    /\ stack' = SetTop([Top EXCEPT !.i = Top.i + 1,
                                   !.sub_directories = Append(Top.sub_directories, Entry)])
    /\ UNCHANGED <<tree, remote_path, remote, nextId, root_file_list, ops, calls, passNo,
                   aborted, returned>>
    /\ UNCHANGED segvars

\* sync_file lines 261-276: no id found, the file is uploaded as a new node
SyncFileCreate ==
    /\ AtEntry
    /\ ~Entry.is_dir
    /\ GetGdriveFileId(Entry.name, Top.file_list) = None
    /\ remote' = remote \cup {NewFileRecord(nextId, Entry.name, Top.id_)}
    /\ nextId' = nextId + 1
    /\ ops' = Append(ops, Op("create", Entry.name, Top.id_, nextId))
    /\ calls' = Append(calls, Call("sync_file", Top.local_folder, Entry.name))
    /\ stack' = SetTop([Top EXCEPT !.i = Top.i + 1])
    /\ UNCHANGED <<tree, remote_path, root_file_list, passNo, aborted, returned>>
    /\ UNCHANGED segvars

\* sync_file lines 278-289: an id was found and its record is older than the
\* local file, the file is uploaded into that id
SyncFileOverwrite ==
    /\ AtEntry
    /\ ~Entry.is_dir
    /\ LET file_id == GetGdriveFileId(Entry.name, Top.file_list)
       IN  /\ file_id # None
           /\ GetGdriveModificationDate(file_id, Top.file_list) < Entry.mtime
           /\ remote' = {IF r.id = file_id THEN UpdatedRecord(r, Entry.name) ELSE r : r \in remote}
           /\ ops' = Append(ops, Op("update", Entry.name, None, file_id))
    /\ calls' = Append(calls, Call("sync_file", Top.local_folder, Entry.name))
    /\ stack' = SetTop([Top EXCEPT !.i = Top.i + 1])
    /\ UNCHANGED <<tree, remote_path, nextId, root_file_list, passNo, aborted, returned>>
    /\ UNCHANGED segvars

\* sync_file lines 278-284: an id was found and its record is not older
SyncFileSkip ==
    /\ AtEntry
    /\ ~Entry.is_dir
    /\ LET file_id == GetGdriveFileId(Entry.name, Top.file_list)
       IN  /\ file_id # None
           /\ ~(GetGdriveModificationDate(file_id, Top.file_list) < Entry.mtime)
    /\ calls' = Append(calls, Call("sync_file", Top.local_folder, Entry.name))
    /\ stack' = SetTop([Top EXCEPT !.i = Top.i + 1])
    /\ UNCHANGED <<tree, remote_path, remote, nextId, root_file_list, ops, passNo, aborted, returned>>
    /\ UNCHANGED segvars

\* Recurse as it would be if the recursive call were made from inside the
\* iterdir loop, while entries of the directory are still to be visited
Recurse_InsideLoop ==
    /\ stack # <<>>
    /\ Top.fn = "sync_folder"
    /\ Top.pc = "body"
    /\ Top.j <= Len(Top.sub_directories)
    /\ LET sub_directory == Top.sub_directories[Top.j]
           new_remote_parent == OsPathJoin(Top.remote_parent_path, sub_directory.name)
       IN  /\ stack' = Append(SetTop([Top EXCEPT !.j = Top.j + 1]),
                              Frame("sync_folder", sub_directory.dir, new_remote_parent))
           /\ calls' = Append(calls, Call("sync_folder", sub_directory.dir, <<>>))
    /\ UNCHANGED <<tree, remote_path, remote, nextId, root_file_list, ops, passNo, aborted, returned>>
    /\ UNCHANGED segvars

\* sync_folder lines 358-368: the recursive call for the next sub directory
Recurse ==
    /\ stack # <<>>
    /\ Top.fn = "sync_folder"
    /\ Top.pc = "body"
    /\ Top.i > Len(tree[Top.local_folder])
    /\ Top.j <= Len(Top.sub_directories)
    /\ LET sub_directory == Top.sub_directories[Top.j]
           new_remote_parent == OsPathJoin(Top.remote_parent_path, sub_directory.name)
       IN  /\ stack' = Append(SetTop([Top EXCEPT !.j = Top.j + 1]),
                              Frame("sync_folder", sub_directory.dir, new_remote_parent))
           /\ calls' = Append(calls, Call("sync_folder", sub_directory.dir, <<>>))
    /\ UNCHANGED <<tree, remote_path, remote, nextId, root_file_list, ops, passNo, aborted, returned>>
    /\ UNCHANGED segvars

\* sync_folder returns after the last sub directory
Return ==
    /\ stack # <<>>
    /\ Top.fn = "sync_folder"
    /\ Top.pc = "body"
    /\ Top.i > Len(tree[Top.local_folder])
    /\ Top.j > Len(Top.sub_directories)
    /\ stack' = Pop
    /\ UNCHANGED <<tree, remote_path, remote, nextId, root_file_list, ops, calls, passNo,
                   aborted, returned>>
    /\ UNCHANGED segvars

\* ------------------------------------------------- a remote call raises
\* no function of the module catches an exception: it leaves every
\* sync_folder activation and ends the pass
MayFail == stack # <<>> /\ Cardinality(aborted) < MaxFailures
Raise(op) ==
    /\ ops' = Append(ops, op)
    /\ stack' = <<>>
    /\ aborted' = aborted \cup {passNo}
    /\ UNCHANGED <<tree, remote_path, remote, nextId, root_file_list, calls, passNo, returned>>
    /\ UNCHANGED segvars

\* get_gdrive_file_list lines 104-107: the query for the children raises
FailLookup ==
    /\ MayFail
    /\ Top.pc = "resolve"
    /\ Top.path_stack # <<>>
    /\ ~root_file_list.known
    /\ Raise(Op("raise_lookup", Top.path_stack[Len(Top.path_stack)], Top.id_, None))

\* create_gdrive_folder lines 232-235: the folder was not found and its
\* upload raises
FailMkdir ==
    /\ MayFail
    /\ Top.pc = "resolve"
    /\ Top.path_stack # <<>>
    /\ \E order \in ListOrders :
         LET folder == Top.path_stack[Len(Top.path_stack)]
         IN  /\ GetGdriveFolderId(remote, folder, Top.id_, root_file_list, order) = None
             /\ ops' = ops \o <<Op("lookup", folder, Top.id_, None),
                                Op("raise_mkdir", folder, Top.id_, None)>>
    /\ stack' = <<>>
    /\ aborted' = aborted \cup {passNo}
    /\ UNCHANGED <<tree, remote_path, remote, nextId, root_file_list, calls, passNo, returned>>
    /\ UNCHANGED segvars

\* sync_folder lines 342-345: the listing of the account raises
FailList ==
    /\ MayFail
    /\ Top.fn = "sync_folder"
    /\ Top.pc = "resolve"
    /\ Top.path_stack = <<>>
    /\ ~root_file_list.known
    /\ Raise(Op("raise_list", <<>>, None, None))

\* FailUpload as it would be if sync_file caught the exception and the loop
\* over the directory went on with the next entry
FailUpload_Caught ==
    /\ MayFail
    /\ AtEntry
    /\ ~Entry.is_dir
    /\ LET file_id == GetGdriveFileId(Entry.name, Top.file_list)
       IN  /\ IF file_id = None THEN TRUE
              ELSE GetGdriveModificationDate(file_id, Top.file_list) < Entry.mtime
           /\ ops' = Append(ops, Op("raise_upload", Entry.name,
                                    IF file_id = None THEN Top.id_ ELSE None, file_id))
    /\ calls' = Append(calls, Call("sync_file", Top.local_folder, Entry.name))
    /\ stack' = SetTop([Top EXCEPT !.i = Top.i + 1])
    /\ aborted' = aborted \cup {passNo}
    /\ UNCHANGED <<tree, remote_path, remote, nextId, root_file_list, passNo, returned>>
    /\ UNCHANGED segvars

\* upload_file lines 162-164 called by sync_file: the upload raises
FailUpload ==
    /\ MayFail
    /\ AtEntry
    /\ ~Entry.is_dir
    /\ LET file_id == GetGdriveFileId(Entry.name, Top.file_list)
       IN  /\ IF file_id = None THEN TRUE
              ELSE GetGdriveModificationDate(file_id, Top.file_list) < Entry.mtime
           /\ ops' = Append(ops, Op("raise_upload", Entry.name,
                                    IF file_id = None THEN Top.id_ ELSE None, file_id))
    /\ calls' = Append(calls, Call("sync_file", Top.local_folder, Entry.name))
    /\ stack' = <<>>
    /\ aborted' = aborted \cup {passNo}
    /\ UNCHANGED <<tree, remote_path, remote, nextId, root_file_list, passNo, returned>>
    /\ UNCHANGED segvars

Next ==
    \/ StartPass
    \/ ResolveFound
    \/ ResolveCreate
    \/ FetchRootFileList
    \/ ExtractOnly
    \/ DeferDir
    \/ SyncFileCreate
    \/ SyncFileOverwrite
    \/ SyncFileSkip
    \/ Recurse
    \/ Return
    \/ FailLookup
    \/ FailMkdir
    \/ FailList
    \/ FailUpload

Spec == Init /\ [][Next]_vars

\* the steps of a running pass in which every remote call succeeds
PassStep ==
    \/ ResolveFound
    \/ ResolveCreate
    \/ FetchRootFileList
    \/ ExtractOnly
    \/ DeferDir
    \/ SyncFileCreate
    \/ SyncFileOverwrite
    \/ SyncFileSkip
    \/ Recurse
    \/ Return
NextNoFail == StartPass \/ PassStep
\* a pass is running and its path has been segmented: exactly the states in
\* which PassStep is enabled
Running == stack # <<>> /\ Top.pc # "segmenting"
\* WF_vars(PassStep) with ENABLED <<PassStep>>_vars written out as Running:
\* the interpreter always executes the next statement of a running pass
PassStepFair == []<>(~Running) \/ []<><<PassStep>>_vars
\* passes without failures
SpecNoFail == Init /\ [][NextNoFail]_vars /\ PassStepFair

\* ================================== create_gdrive_path called on its own
MaxResolutions == 2

\* the caller holds a file list (or None) and passes it to every call
InitPath ==
    /\ SegOff
    /\ tree = Tree1
    /\ remote_path \in RemotePaths
    /\ remote \in InitialRemotes
    /\ nextId = FirstNewId
    /\ root_file_list \in {NoFileList} \cup {FileList(GetList(remote, o)) : o \in ListOrders}
    /\ stack = <<>>
    /\ ops = <<>>
    /\ calls = <<>>
    /\ passNo = 0
    /\ aborted = {}
    /\ returned = <<>>

\* create_gdrive_path(drive, path, file_list) is called
CallCreatePath ==
    /\ stack = <<>>
    /\ Len(returned) < MaxResolutions
    /\ stack' = <<Frame("create_gdrive_path", 0, remote_path)>>
    /\ ops' = <<>>
    /\ UNCHANGED <<tree, remote_path, remote, nextId, root_file_list, calls, passNo, aborted, returned>>
    /\ UNCHANGED segvars

\* create_gdrive_path line 250: PathStack is exhausted, id_ is returned
PathReturn ==
    /\ stack # <<>>
    /\ Top.fn = "create_gdrive_path"
    /\ Top.pc = "resolve"
    /\ Top.path_stack = <<>>
    /\ returned' = Append(returned, Top.id_)
    /\ stack' = Pop
    /\ UNCHANGED <<tree, remote_path, remote, nextId, root_file_list, ops, calls, passNo, aborted>>
    /\ UNCHANGED segvars

NextPath == CallCreatePath \/ ResolveFound \/ ResolveCreate \/ PathReturn

SpecPath == InitPath /\ [][NextPath]_vars

\* ================================================================ claims
IsWrite(o) == o.op \in {"mkdir", "create", "update"}
\* the current pass returned without an exception
PassDone == passNo >= 1 /\ stack = <<>> /\ passNo \notin aborted

\* a path of non-empty components separated by single separators
WellFormed(p) ==
    /\ p # <<>>
    /\ p[1] # SEP
    /\ p[Len(p)] # SEP
    /\ \A k \in 1..(Len(p) - 1) : ~(p[k] = SEP /\ p[k + 1] = SEP)

\* C1: during one sync pass to a well-formed remote path no two
\* folder-creation calls carry the same (title, parent) pair.
C1_NoDuplicateFolderCreation ==
    WellFormed(remote_path) =>
    \A m, n \in DOMAIN ops :
        (m < n /\ ops[m].op = "mkdir" /\ ops[n].op = "mkdir")
            => <<ops[m].title, ops[m].parent>> # <<ops[n].title, ops[n].parent>>

\* C2: resolving a well-formed path twice in sequence, the file list of the
\* first call handed to the second, returns the same leaf id both times and
\* the second call creates no folder.
C2_ResolveTwiceIdempotent ==
    (Len(returned) = 2 /\ WellFormed(remote_path)) =>
        /\ returned[1] = returned[2]
        /\ \A k \in DOMAIN ops : ops[k].op # "mkdir"

\* C3: when no record of the child list of the target parent has a title
\* equal to the local file's name, sync_file uploads a new node with that
\* title under the target parent and writes into no existing node.
C3_CreateWhenNoSameTitle ==
    [][(/\ AtEntry
        /\ ~Entry.is_dir
        /\ \A k \in DOMAIN Top.file_list : Top.file_list[k].title # Entry.name)
       => (/\ remote' = remote \cup {NewFileRecord(nextId, Entry.name, Top.id_)}
           /\ ops' = Append(ops, Op("create", Entry.name, Top.id_, nextId)))]_vars

\* every record was made by the program: the account was empty at the start
StartedEmpty == \A r \in remote : r.id >= FirstNewId

\* the remote counterpart of the local file the loop is at: the first record
\* of the child list whose title equals its name
HasCounterpart == \E k \in DOMAIN Top.file_list : Top.file_list[k].title = Entry.name
Counterpart ==
    Top.file_list[FirstOf({k \in DOMAIN Top.file_list : Top.file_list[k].title = Entry.name})]

\* C4: for a local file with a remote counterpart under the target parent,
\* sync_file uploads into the counterpart's id if and only if the
\* counterpart's modification time is strictly earlier than the local one;
\* otherwise it issues no remote write.
C4_OverwriteIffStrictlyOlder ==
    [][(AtEntry /\ ~Entry.is_dir /\ HasCounterpart)
       => IF Counterpart.modifiedDate < Entry.mtime
          THEN ops' = Append(ops, Op("update", Entry.name, None, Counterpart.id))
          ELSE ops' = ops /\ remote' = remote]_vars

\* C5: a second pass over the same tree to the same well-formed remote path,
\* after the first pass into an empty account has run to completion, issues
\* no folder creation, no file creation and no update.
C5_SecondPassNoWrites ==
    (passNo = 2 /\ aborted = {} /\ StartedEmpty /\ WellFormed(remote_path)) =>
        \A k \in DOMAIN ops : ~IsWrite(ops[k])

\* --- the mirror of a local tree
\* the non-empty components of a path string, root first
RECURSIVE Components(_)
Components(p) ==
    IF p = <<>> THEN <<>>
    ELSE LET i == RFindSep(p)
             last == SubSeq(p, i + 1, Len(p))
             rest == IF i = 0 THEN <<>> ELSE Components(SubSeq(p, 1, i - 1))
         IN  IF last = <<>> THEN rest ELSE Append(rest, last)

\* titles of the chain of folders from the root down to record r
RECURSIVE TitleChain(_, _)
TitleChain(rem, r) ==
    LET p == CHOOSE q \in r.parents : TRUE
    IN  IF p = RootId THEN <<r.title>>
        ELSE Append(TitleChain(rem, CHOOSE q \in rem : q.id = p), r.title)

\* names of the directories from the pass's folder down to directory d
RECURSIVE LocalChain(_, _)
LocalChain(t, d) ==
    IF d = 1 THEN <<>>
    ELSE LET up == CHOOSE u \in DOMAIN t :
                       \E k \in DOMAIN t[u] : t[u][k].is_dir /\ t[u][k].dir = d
             e  == CHOOSE k \in DOMAIN t[up] : t[up][k].is_dir /\ t[up][k].dir = d
         IN  Append(LocalChain(t, up), t[up][e].name)

FoldersAt(rem, chain) ==
    {r \in rem : r.mimeType = FOLDER_MIME_TYPE /\ TitleChain(rem, r) = chain}

\* C6: after a pass to a well-formed path against an empty account, every local directory has
\* exactly one remote folder chain R/p, and every local file is a child of
\* the folder of its own directory.
C6_MirrorsTree ==
    (PassDone /\ passNo = 1 /\ StartedEmpty /\ WellFormed(remote_path)) =>
        \A d \in DOMAIN tree :
            LET target == FoldersAt(remote, Components(remote_path) \o LocalChain(tree, d))
            IN  /\ Cardinality(target) = 1
                /\ \A k \in DOMAIN tree[d] :
                     ~tree[d][k].is_dir =>
                        \E r \in remote : /\ r.title = tree[d][k].name
                                          /\ r.mimeType # FOLDER_MIME_TYPE
                                          /\ r.parents = {(CHOOSE f \in target : TRUE).id}

\* --- traversal order
\* the directories of t below and including d, in enumeration order, parents first
RECURSIVE PreOrderFrom(_, _, _)
PreOrderFrom(t, d, k) ==
    IF k > Len(t[d]) THEN <<>>
    ELSE (IF t[d][k].is_dir THEN <<t[d][k].dir>> \o PreOrderFrom(t, t[d][k].dir, 1) ELSE <<>>)
         \o PreOrderFrom(t, d, k + 1)
PreOrder(t) == <<1>> \o PreOrderFrom(t, 1, 1)
\* position of every directory of t in that order
Rank(t) ==
    LET order == PreOrder(t)
    IN  [d \in DOMAIN t |-> CHOOSE k \in DOMAIN order : order[k] = d]

C8_YieldsNonEmptyComponents ==
    (spc = "done" /\ spath # <<>>) => yielded = Components(spath)

\* C9: path segmentation terminates for every path string.
C9_SegmentationTerminates == <>(spc = "done")

\* C10: with the empty remote path no folder lookup and no folder creation
\* is issued.
C10_EmptyPathNoRemoteOperation ==
    remote_path = <<>> => \A k \in DOMAIN ops : ops[k].op \notin {"lookup", "mkdir"}

\* --- failures
IsRaise(o) == o.op \in {"raise_lookup", "raise_mkdir", "raise_list", "raise_upload"}
IsRemoteCall(o) == IsWrite(o) \/ IsRaise(o) \/ o.op = "list" \/ (o.op = "lookup" /\ o.live)

\* C11: a remote call that fails is the last remote operation of its pass, at
\* whatever depth it is made: the pass is over, no sync_folder activation is
\* left, the failing step changes nothing on the remote side, and every folder
\* and file the pass created is still there.
C11_FailureAbortsPass ==
    /\ [](\A k \in DOMAIN ops : IsRaise(ops[k]) => (k = Len(ops) /\ stack = <<>>))
    /\ [](\A k \in DOMAIN ops :
            ops[k].op \in {"mkdir", "create"} =>
                \E r \in remote : r.id = ops[k].id /\ r.title = ops[k].title)
    /\ [][(ops' # ops /\ ops' # <<>> /\ IsRaise(ops'[Len(ops')]))
            => (remote' = remote /\ stack' = <<>>)]_vars

\* an upload made two directories below the pass's folder has failed after
\* the pass had created folders and files
C11_Witness ==
    /\ ops # <<>>
    /\ ops[Len(ops)].op = "raise_upload"
    /\ ops[Len(ops)].dir = 3
    /\ tree = Tree2
    /\ stack = <<>>
    /\ \E k \in DOMAIN ops : ops[k].op = "mkdir"
    /\ \E k \in DOMAIN ops : ops[k].op = "create"

\* the records the current pass created
CreatedInPass == {ops[k].id : k \in {n \in DOMAIN ops : ops[n].op \in {"mkdir", "create"}}}
Rerun ==
    PassDone /\ passNo = 2 /\ aborted = {1} /\ StartedEmpty /\ WellFormed(remote_path)

\* the rerun repeats no (title, parent) pair of a node of the aborted pass
RerunRepeatsNothing ==
    \A r \in remote : r.id \in CreatedInPass =>
        ~\E q \in remote : /\ q.id \notin CreatedInPass
                            /\ q.title = r.title
                            /\ q.parents = r.parents

\* no two nodes with the same title under the same parent
NoTwinSiblings ==
    \A r, q \in remote : (r.title = q.title /\ r.parents = q.parents) => r.id = q.id

\* C12: when a pass into an empty account is aborted by a failure and the
\* whole pass is run again to completion, the rerun creates no folder and no
\* file whose (title, parent) the aborted pass had already created, and the
\* final remote tree has no two siblings with the same title.
C12_RerunDoesNotDuplicate ==
    Rerun => (RerunRepeatsNothing /\ NoTwinSiblings)

\* --- the index and its child sets
Range(seq) == {seq[k] : k \in DOMAIN seq}
\* the records a lookup can see: the list handed down, or the service itself
Index == IF root_file_list.known THEN Range(root_file_list.items) ELSE remote
ChildrenOfRoot(index) == {r \in index : r.parents = {} \/ RootId \in r.parents}
ChildrenOf(index, id) == {r \in index : id \in r.parents}

\* C13: in a pass to a well-formed remote path the list searched for the
\* first path segment holds exactly the children of the root (records with no
\* parent or with the root as parent), and the file list of a directory holds
\* exactly the records whose parents contain the target folder's id.
C13_LookupsSeeExactlyTheChildren ==
    WellFormed(remote_path) =>
    /\ (stack # <<>> /\ Top.pc = "resolve" /\ Top.path_stack # <<>> /\ Top.id_ = None) =>
           \A order \in ListOrders :
               Range(GetGdriveFileList(remote, RootId, root_file_list, order))
                   = ChildrenOfRoot(Index)
    /\ (stack # <<>> /\ Top.pc = "body") =>
           Range(Top.file_list) = ChildrenOf(Index, Top.id_)

\* C14: whenever a path resolution or a child lookup of a pass to a
\* well-formed path is about to use the file list that was handed down, that
\* list holds the record of every folder the pass has created so far.
C14_IndexHoldsCreatedFolders ==
    (WellFormed(remote_path) /\ stack # <<>> /\ Top.pc = "resolve" /\ root_file_list.known) =>
        \A k \in DOMAIN ops :
            ops[k].op = "mkdir" => \E r \in Index : r.id = ops[k].id

\* C15: the folder id a path resolution of a pass to a well-formed path
\* returns is a folder whose chain of parents up to the root spells exactly
\* the segments of the resolved path.
C15_LeafSpellsThePath ==
    (WellFormed(remote_path) /\ stack # <<>> /\ Top.fn = "sync_folder" /\ Top.pc = "body") =>
        LET leaf == CHOOSE r \in remote : r.id = Top.id_
        IN  /\ leaf.mimeType = FOLDER_MIME_TYPE
            /\ TitleChain(remote, leaf) = Components(Top.remote_parent_path)

\* --- listing calls
\* the listings of the whole account the pass has asked for
AccountListings == {k \in DOMAIN ops : ops[k].op \in {"list", "raise_list"}}
\* the queries for the children of one parent the pass has asked for
ChildQueries == {k \in DOMAIN ops : ops[k].op \in {"lookup", "raise_lookup"} /\ ops[k].live}

C17_OtherNodesUntouched ==
    [][\A r \in remote :
          (r.id \notin CreatedInPass /\ r \notin remote') =>
              /\ AtEntry
              /\ ~Entry.is_dir
              /\ Top.id_ \in r.parents
              /\ r.title = Entry.name
              /\ r.modifiedDate < Entry.mtime]_vars

\* C18: no pass writes content over a folder node: every update recorded in
\* the log names a node that is not a folder.
C18_NoUploadIntoFolder ==
    \A k \in DOMAIN ops :
        ops[k].op = "update" =>
            \A r \in remote : r.id = ops[k].id => r.mimeType # FOLDER_MIME_TYPE

\* the calls of the pass that visit entry k of directory d
VisitsOf(d, k) ==
    LET e == tree[d][k]
    IN  {n \in DOMAIN calls :
            IF e.is_dir
            THEN calls[n].fn = "sync_folder" /\ calls[n].dir = e.dir
            ELSE calls[n].fn = "sync_file" /\ calls[n].dir = d /\ calls[n].name = e.name}
VisitedOnce ==
    /\ \A d \in DOMAIN tree : \A k \in DOMAIN tree[d] : Cardinality(VisitsOf(d, k)) = 1
    /\ Cardinality({n \in DOMAIN calls : calls[n].dir = 1 /\ calls[n].fn = "sync_folder"}) = 1

\* C19: when no remote call fails, a pass started with a well-formed remote
\* path terminates, and at its end every local file has had exactly one
\* sync_file call and every directory exactly one sync_folder call.
C19_TerminatesVisitingOnce ==
    /\ (WellFormed(remote_path) /\ stack # <<>>) ~> (stack = <<>>)
    /\ []((PassDone /\ WellFormed(remote_path)) => VisitedOnce)

\* a pass over Tree3 to a/b has ended with all seven calls made
C19_Witness ==
    /\ PassDone
    /\ tree = Tree3
    /\ remote_path = <<"a", SEP, "b">>
    /\ VisitedOnce
    /\ Len(calls) = 7
====
